---- MODULE Spec2Model ----
(***************************************************************************)
(* Model of the livenation-scraper extraction-and-reconciliation pipeline. *)
(*                                                                         *)
(* Strings the code inspects character by character (dates, locations,     *)
(* names and e-mail addresses of contacts, the joined Dates cell) are      *)
(* sequences of one-character strings.  Strings the code only compares     *)
(* (titles, urls) are TLA+ strings.                                        *)
(***************************************************************************)
EXTENDS Integers, Sequences, FiniteSets, TLC

VARIABLES
    sheet,        \* remote tab: sequence of rows, each a 7-tuple of cells
    clock,        \* source of `new Date().toISOString()` stamps
    sync,         \* record of the last syncConcerts call (inputs, classification, writes)
    prevSync,     \* record of the call before it
    apiKey,       \* config.openai.apiKey is set (non-empty)
    ext,          \* the running / last call of extractInfoWithLLM
    entry,        \* which main runs: "index" (src/index.ts) or "service" (the services version)
    ledgerFile,   \* records held by concerts.json
    pc,           \* position of main
    existingConcerts, \* main: existingConcerts
    links,        \* main: links, as returned by getAllConcertLinks
    newLinks,     \* main: newLinks
    k,            \* main: 1-based position of the for-of loop in newLinks
    newConcerts,  \* main: newConcerts
    errorsMd,     \* entries appended to errors.md in this run
    visited,      \* urls of the detail pages page.goto was called with in this run
    fileAtStart,  \* ledgerFile when the run started
    outcome,      \* how the run ended
    calls,        \* calls of extractInfoWithLLM made by this run
    saves,        \* writes of the ledger file made by this run
    webhook,      \* what the webhook's close handler saw of the last run
    built,        \* the last return of scrapeConcertDetails, with its inputs
    runs,         \* runs started so far
    waits,        \* delays between requests awaited by this run
    failed,       \* urls whose processing threw: in this run and in the run before
    parked,       \* the locals of the other scraper process while this one is scheduled
    disc,         \* the running / last call of getAllConcertLinks, step by step
    norm,         \* the last page text taken by scrapeConcertDetails
    app           \* record of the last appendConcerts call

syncVars == <<sheet, clock, sync, prevSync>>

extVars == <<apiKey, ext>>

mainVars == <<entry, ledgerFile, pc, existingConcerts, links, newLinks, k, newConcerts,
              errorsMd, visited, fileAtStart, outcome, calls, saves, webhook, runs,
              waits, failed>>

\* the state of the parts modelled on their own
sideVars == <<parked, disc, norm, app>>

vars == <<syncVars, extVars, mainVars, built, sideVars>>

----------------------------------------------------------------------------
(* Bounds of the model *)

MaxRows == 6        \* rows of the remote tab
MaxClock == 2       \* distinct timestamps, hence calls that write to the tab
MaxEvents == 3      \* elements of the events array of one model response
MaxCards == 2       \* cards of the listing page
MaxRuns == 2        \* runs of main
MaxFragments == 52  \* distinct text fragments of a detail page

----------------------------------------------------------------------------
(* Character strings *)

Digits == {"0", "1", "2", "3", "4", "5", "6", "7", "8", "9"}

LowerLetters == {"a", "b", "c", "d", "e", "f", "g", "h", "i", "j", "k", "l", "m",
                 "n", "o", "p", "q", "r", "s", "t", "u", "v", "w", "x", "y", "z"}

UpperLetters == {"A", "B", "C", "D", "E", "F", "G", "H", "I", "J", "K", "L", "M",
                 "N", "O", "P", "Q", "R", "S", "T", "U", "V", "W", "X", "Y", "Z"}

Letters == LowerLetters \cup UpperLetters

\* Array.prototype.join / String concatenation of parts with a separator
RECURSIVE Join(_, _)
Join(parts, sep) ==
    IF parts = <<>> THEN <<>>
    ELSE IF Len(parts) = 1 THEN Head(parts)
    ELSE Head(parts) \o sep \o Join(Tail(parts), sep)

\* String.prototype.includes for a single character
Includes(s, ch) == \E i \in 1..Len(s) : s[i] = ch

Range(seq) == {seq[i] : i \in 1..Len(seq)}

\* All sequences over S of length at most n
SeqsUpTo(S, n) == UNION {[1..len -> S] : len \in 0..n}

----------------------------------------------------------------------------
(* Values of the model *)

DateA == <<"2", "4", " ", "j", "u", "n", "i", " ", "2", "0", "2", "5">>
DateB == <<"3", " ", "j", "u", "n", "i", " ", "2", "0", "2", "5">>
DateMei == <<"5", " ", "m", "e", "i", " ", "2", "0", "2", "5">>

LocA == <<"A", "B", ",", " ", "B", "r", "u">>
LocB == <<"R", "o", "m", "a", ",", " ", "A", "n", "t">>

Mail == <<"k", "@", "l", "n">>

NoContact == [present |-> FALSE]
Press == [present |-> TRUE, name |-> <<"K">>, email |-> Mail]

Concert(t, ds, loc, c, u) ==
    [title |-> t, dates |-> ds, location |-> loc, contact |-> c, url |-> u]

----------------------------------------------------------------------------
(* Date sort keys: new Date(s.split(' ').reverse().join('-')).getTime() *)

\* String.prototype.split for a one-character separator
RECURSIVE SplitFrom(_, _, _)
SplitFrom(s, sep, cur) ==
    IF s = <<>> THEN <<cur>>
    ELSE IF Head(s) = sep THEN <<cur>> \o SplitFrom(Tail(s), sep, <<>>)
    ELSE SplitFrom(Tail(s), sep, Append(cur, Head(s)))

Split(s, sep) == SplitFrom(s, sep, <<>>)

\* Array.prototype.reverse
Reverse(seq) == [i \in 1..Len(seq) |-> seq[Len(seq) + 1 - i]]

DigitSeq == <<"0", "1", "2", "3", "4", "5", "6", "7", "8", "9">>

DigitVal(ch) == (CHOOSE i \in 1..10 : DigitSeq[i] = ch) - 1

RECURSIVE ToNumber(_)
ToNumber(s) ==
    IF s = <<>> THEN 0
    ELSE 10 * ToNumber(SubSeq(s, 1, Len(s) - 1)) + DigitVal(s[Len(s)])

IsNumberToken(s) == Len(s) > 0 /\ \A i \in 1..Len(s) : s[i] \in Digits

LowerSeq == <<"a", "b", "c", "d", "e", "f", "g", "h", "i", "j", "k", "l", "m",
              "n", "o", "p", "q", "r", "s", "t", "u", "v", "w", "x", "y", "z">>
UpperSeq == <<"A", "B", "C", "D", "E", "F", "G", "H", "I", "J", "K", "L", "M",
              "N", "O", "P", "Q", "R", "S", "T", "U", "V", "W", "X", "Y", "Z">>

ToLower(ch) ==
    IF ch \in UpperLetters THEN LowerSeq[CHOOSE i \in 1..26 : UpperSeq[i] = ch] ELSE ch

\* the engine's month keywords: a word counts as a month name when its first
\* three letters, lower-cased, are those of an English month name
MonthPrefixes ==
    << <<"j", "a", "n">>, <<"f", "e", "b">>, <<"m", "a", "r">>, <<"a", "p", "r">>,
       <<"m", "a", "y">>, <<"j", "u", "n">>, <<"j", "u", "l">>, <<"a", "u", "g">>,
       <<"s", "e", "p">>, <<"o", "c", "t">>, <<"n", "o", "v">>, <<"d", "e", "c">> >>

Prefix3(w) == [i \in 1..3 |-> ToLower(w[i])]

IsMonthWord(w) == Len(w) >= 3 /\ \E m \in 1..12 : MonthPrefixes[m] = Prefix3(w)

MonthOf(w) == CHOOSE m \in 1..12 : MonthPrefixes[m] = Prefix3(w)

NaN == -1

IsDay(n) == n >= 1 /\ n <= 31

IsLeap(y) == (y % 4 = 0 /\ y % 100 # 0) \/ y % 400 = 0

DaysBeforeMonth == <<0, 31, 59, 90, 120, 151, 181, 212, 243, 273, 304, 334>>

\* MakeDay: the day number of year-month-day (a day past the month's end
\* runs into the next month)
DayNumber(y, m, d) ==
    365 * y + ((y + 3) \div 4) - ((y + 99) \div 100) + ((y + 399) \div 400)
    + DaysBeforeMonth[m] + (IF m > 2 /\ IsLeap(y) THEN 1 ELSE 0) + d

\* the legacy date parser on the '-'-separated tokens: numbers go to the day
\* composer, a month word names the month, any other word is garbage and is
\* an error once a number has been read
RECURSIVE ScanTokens(_, _, _, _)
ScanTokens(tokens, numbers, month, bad) ==
    IF tokens = <<>> THEN [numbers |-> numbers, month |-> month, bad |-> bad]
    ELSE LET tk == Head(tokens)
         IN IF IsNumberToken(tk)
            THEN ScanTokens(Tail(tokens), Append(numbers, ToNumber(tk)), month,
                            bad \/ Len(numbers) >= 3)
            ELSE IF IsMonthWord(tk)
            THEN ScanTokens(Tail(tokens), numbers, MonthOf(tk), bad)
            ELSE ScanTokens(Tail(tokens), numbers, month, bad \/ Len(numbers) > 0)

FullYear(y) == IF y <= 49 THEN y + 2000 ELSE IF y <= 99 THEN y + 1900 ELSE y

\* Date.parse of a string such as "2025-juni-24": the time value as a day
\* number, or NaN
ParseDate(str) ==
    LET r == ScanTokens(Split(str, "-"), <<>>, 0, FALSE)
        n == r.numbers
    IN IF r.bad \/ r.month = 0 \/ Len(n) = 0 \/ Len(n) > 2 THEN NaN
       ELSE IF Len(n) = 1
            THEN (IF IsDay(n[1]) THEN DayNumber(2000, r.month, n[1]) ELSE NaN)
       ELSE IF ~IsDay(n[1])
            THEN (IF IsDay(n[2]) THEN DayNumber(FullYear(n[1]), r.month, n[2]) ELSE NaN)
       ELSE DayNumber(FullYear(n[2]), r.month, n[1])

\* new Date(a.split(' ').reverse().join('-')).getTime()
DateKey(a) == ParseDate(Join(Reverse(Split(a, " ")), <<"-">>))

\* the comparator's result as the sort sees it: dateA.getTime() -
\* dateB.getTime(), a NaN result counting as 0
Compare(ka, kb) == IF ka = NaN \/ kb = NaN THEN 0 ELSE ka - kb

\* Array.prototype.sort on the keys of the elements (the engine's sort for
\* short arrays: find the initial run, reverse it when strictly descending,
\* then binary insertion of the remaining elements).  Sorts a sequence of
\* [key, val] pairs.
RECURSIVE RunLength(_, _, _)
RunLength(a, idx, descending) ==
    IF idx > Len(a) THEN idx - 1
    ELSE LET order == Compare(a[idx].key, a[idx - 1].key)
         IN IF (descending /\ order >= 0) \/ (~descending /\ order < 0)
            THEN idx - 1
            ELSE RunLength(a, idx + 1, descending)

RECURSIVE InsertionPoint(_, _, _, _)
InsertionPoint(a, pivot, left, right) ==
    IF left >= right THEN left
    ELSE LET mid == left + ((right - left) \div 2)
         IN IF Compare(pivot.key, a[mid].key) < 0
            THEN InsertionPoint(a, pivot, left, mid)
            ELSE InsertionPoint(a, pivot, mid + 1, right)

RECURSIVE BinaryInsertionSort(_, _)
BinaryInsertionSort(a, start) ==
    IF start > Len(a) THEN a
    ELSE LET pivot == a[start]
             left == InsertionPoint(a, pivot, 1, start)
             moved == [i \in 1..Len(a) |->
                          IF i < left \/ i > start THEN a[i]
                          ELSE IF i = left THEN pivot
                          ELSE a[i - 1]]
         IN BinaryInsertionSort(moved, start + 1)

SortPairs(a) ==
    IF Len(a) < 2 THEN a
    ELSE LET descending == Compare(a[2].key, a[1].key) < 0
             run == RunLength(a, 3, descending)
             first == IF descending
                      THEN [i \in 1..Len(a) |-> IF i <= run THEN a[run + 1 - i] ELSE a[i]]
                      ELSE a
         IN BinaryInsertionSort(first, run + 1)

\* dates.sort(...) of scrapeConcertDetails / sortDates
SortDates(dates) ==
    LET sorted == SortPairs([i \in 1..Len(dates) |->
                                [key |-> DateKey(dates[i]), val |-> dates[i]]])
    IN [i \in 1..Len(dates) |-> sorted[i].val]

\* [...existingConcerts, ...newConcerts].sort(...) by dates[0]
SortConcerts(concerts) ==
    LET sorted == SortPairs([i \in 1..Len(concerts) |->
                                [key |-> DateKey(concerts[i].dates[1]),
                                 val |-> concerts[i]]])
    IN [i \in 1..Len(concerts) |-> sorted[i].val]

----------------------------------------------------------------------------
(* GoogleSheetsService.syncConcerts *)

CommaSpace == <<",", " ">>

Headers == << "Title",
              <<"D", "a", "t", "e", "s">>,
              <<"L", "o", "c", "a", "t", "i", "o", "n">>,
              <<"C", "o", "n", "t", "a", "c", "t", " ", "N", "a", "m", "e">>,
              <<"C", "o", "n", "t", "a", "c", "t", " ", "E", "m", "a", "i", "l">>,
              "URL",
              "Last Updated" >>

\* concert.contact?.name || ''   and   concert.contact?.email || ''
ContactName(c) == IF c.contact.present THEN c.contact.name ELSE <<>>
ContactEmail(c) == IF c.contact.present THEN c.contact.email ELSE <<>>

\* the six compared cells of a concert
NewData(c) ==
    << c.title, Join(c.dates, CommaSpace), c.location,
       ContactName(c), ContactEmail(c), c.url >>

\* a written row: the six cells plus new Date().toISOString()
RowOf(c, now) == NewData(c) \o <<now>>

\* existing.data.slice(0, 6)
FirstSix(row) == SubSeq(row, 1, 6)

\* The url-keyed Map built from the initial read: rows 1.. of `values` (index 0
\* is taken to be the header) with a truthy url cell; Map.set keeps the last
\* row of each url.  `values` is 1-based here, so JS index i is values[i + 1]
\* and the stored sheet row i + 1 is the 1-based position itself.
ExistingUrls(values) ==
    {values[p][6] : p \in {q \in 2..Len(values) : values[q][6] # ""}}

ExistingRowNoOffset(values, url) ==
    (CHOOSE p \in 2..Len(values) :
        /\ values[p][6] = url
        /\ \A q \in 2..Len(values) : values[q][6] = url => q <= p) - 1

ExistingRow(values, url) ==
    CHOOSE p \in 2..Len(values) :
        /\ values[p][6] = url
        /\ \A q \in 2..Len(values) : values[q][6] = url => q <= p

HasChangedAlways(c, values) == TRUE

\* JSON.stringify(newData) !== JSON.stringify(existingData)
HasChanged(c, values) ==
    NewData(c) # FirstSix(values[ExistingRow(values, c.url)])

\* classification of one concert against the initial read
ClassifyOne(c, values) ==
    IF c.url \notin ExistingUrls(values) THEN "new"
    ELSE IF HasChanged(c, values) THEN "updated"
    ELSE "unchanged"

Classify(concerts, values) ==
    [i \in 1..Len(concerts) |-> ClassifyOne(concerts[i], values)]

\* records of `concerts` with the given classification, in input order
RECURSIVE SelectClass(_, _, _)
SelectClass(concerts, classes, cls) ==
    IF concerts = <<>> THEN <<>>
    ELSE IF Head(classes) = cls
         THEN <<Head(concerts)>> \o SelectClass(Tail(concerts), Tail(classes), cls)
         ELSE SelectClass(Tail(concerts), Tail(classes), cls)

\* the write requests syncConcerts issues, in order: header append, batch
\* append of the new rows, one values.update per updated concert
SyncWrites(concerts, values, needsHeaders, now) ==
    LET classes == Classify(concerts, values)
        toAppend == SelectClass(concerts, classes, "new")
        toUpdate == SelectClass(concerts, classes, "updated")
        headerWrite ==
            IF needsHeaders /\ (Len(toAppend) > 0 \/ Len(toUpdate) > 0)
            THEN << [op |-> "append", row |-> 0, rows |-> <<Headers>>] >>
            ELSE <<>>
        appendWrite ==
            IF Len(toAppend) > 0
            THEN << [op |-> "append", row |-> 0,
                     rows |-> [i \in 1..Len(toAppend) |-> RowOf(toAppend[i], now)]] >>
            ELSE <<>>
        updateWrites ==
            [i \in 1..Len(toUpdate) |->
                [op |-> "update",
                 row |-> ExistingRow(values, toUpdate[i].url),
                 rows |-> <<RowOf(toUpdate[i], now)>>]]
    IN headerWrite \o appendWrite \o updateWrites

\* the remote store's effect of one write (values.append with INSERT_ROWS adds
\* the rows after the last row; values.update overwrites row A<row>:G<row>)
ApplyWrite(sh, w) ==
    IF w.op = "append" THEN sh \o w.rows
    ELSE [sh EXCEPT ![w.row] = w.rows[1]]

RECURSIVE ApplyWrites(_, _, _)
ApplyWrites(sh, writes, n) ==
    IF n = 0 THEN sh
    ELSE ApplyWrites(ApplyWrite(sh, Head(writes)), Tail(writes), n - 1)

NoSync ==
    [called |-> FALSE, concerts |-> <<>>, before |-> <<>>, readFailed |-> FALSE,
     values |-> <<>>, classes |-> <<>>, writes |-> <<>>, applied |-> 0, ok |-> FALSE]

\* the initial read: values.get may throw, and the tab is then taken as empty
InitialRead(readFails) == IF readFails THEN <<>> ELSE sheet

NeedsHeadersEmptyOnly(readFails) == ~readFails /\ Len(sheet) = 0

NeedsHeaders(readFails) == readFails \/ Len(sheet) = 0

\* one call of syncConcerts: the initial read, classification, and the
\* writes, of which the first `applied` succeed (the call throws when a
\* write fails, leaving the later writes undone)
SyncCall(concerts, readFails, applied) ==
    LET values == InitialRead(readFails)
        writes == SyncWrites(concerts, values, NeedsHeaders(readFails), clock)
        after == ApplyWrites(sheet, writes, applied)
    IN /\ clock < MaxClock
       /\ Len(after) <= MaxRows
       /\ sheet' = after
       /\ clock' = clock + 1
       /\ prevSync' = [called |-> sync.called, concerts |-> sync.concerts, ok |-> sync.ok]
       /\ sync' = [called |-> TRUE, concerts |-> concerts, before |-> sheet,
                   readFailed |-> readFails,
                   values |-> values, classes |-> Classify(concerts, values),
                   writes |-> writes, applied |-> applied,
                   ok |-> applied = Len(writes)]
       /\ UNCHANGED <<extVars, mainVars, built, sideVars>>

\* the data model's records used as inputs: two records of one candidate
\* (same url, different location), a changed version of the first, and a
\* record of another candidate with a contact
RecA == Concert("Band", <<DateA>>, LocA, NoContact, "u1")
RecB == Concert("Band", <<DateA>>, LocB, NoContact, "u1")
RecA2 == Concert("Band II", <<DateB, DateA>>, LocA, NoContact, "u1")
RecC == Concert("Solo", <<DateB>>, LocB, Press, "u2")

SyncInputs ==
    { <<>>, <<RecA>>, <<RecA2>>, <<RecC>>, <<RecA, RecB>>, <<RecB, RecA>>,
      <<RecA, RecC>>, <<RecC, RecA2>>, <<RecA, RecB, RecC>> }

NumWrites(concerts, readFails) ==
    Len(SyncWrites(concerts, InitialRead(readFails), NeedsHeaders(readFails), clock))

\* syncConcerts returns normally: every write succeeded
SyncConcerts ==
    \E concerts \in SyncInputs, readFails \in BOOLEAN :
        SyncCall(concerts, readFails, NumWrites(concerts, readFails))

\* syncConcerts throws: a write request failed
SyncConcertsThrows ==
    \E concerts \in SyncInputs, readFails \in BOOLEAN :
        \E applied \in 0..(NumWrites(concerts, readFails) - 1) :
            SyncCall(concerts, readFails, applied)

----------------------------------------------------------------------------
(* GoogleSheetsService.appendConcerts *)

NotYetInSheetAll(concerts, existingUrls) == concerts

\* concerts.filter(concert => !existingUrls.has(concert.url))
NotYetInSheet(concerts, existingUrls) ==
    LET Unknown(c) == c.url \notin existingUrls
    IN SelectSeq(concerts, Unknown)

\* one call of appendConcerts: the read (a failed read is taken as an empty
\* tab), the filter against the urls of rows 1.. of the read, and one
\* values.append of the header (if needed) and the rows of the new records;
\* nothing is requested when no record is new; a failing append is rethrown
AppendConcerts ==
    \E concerts \in SyncInputs, readFails \in BOOLEAN, appendFails \in BOOLEAN :
        LET values == InitialRead(readFails)
            fresh == NotYetInSheet(concerts, ExistingUrls(values))
            rows == [i \in 1..Len(fresh) |-> RowOf(fresh[i], clock)]
            request == IF NeedsHeaders(readFails) THEN <<Headers>> \o rows ELSE rows
            after == IF Len(fresh) = 0 \/ appendFails THEN sheet ELSE sheet \o request
        IN /\ clock < MaxClock
           /\ Len(after) <= MaxRows
           /\ appendFails => Len(fresh) > 0
           /\ sheet' = after
           /\ clock' = clock + 1
           /\ app' = [called |-> TRUE, concerts |-> concerts, before |-> sheet,
                      readFailed |-> readFails, values |-> values,
                      fresh |-> fresh, ok |-> ~appendFails,
                      prevCalled |-> app.called, prevConcerts |-> app.concerts,
                      prevOk |-> app.ok]
           /\ UNCHANGED <<sync, prevSync, extVars, mainVars, built, parked, disc, norm>>

InitSync ==
    /\ sheet = <<>>
    /\ clock = 0
    /\ sync = NoSync
    /\ prevSync = [called |-> FALSE, concerts |-> <<>>, ok |-> FALSE]


----------------------------------------------------------------------------
(* extractInfoWithLLM *)

MAX_RETRIES == 3

\* JSON values of the fields the code inspects
Str(s) == [t |-> "string", v |-> s]
Num == [t |-> "number", v |-> <<>>]
Undef == [t |-> "undefined", v |-> <<>>]

\* elements of the events array: an object with date and location, or null
Obj(d, l) == [t |-> "object", date |-> d, location |-> l]
Null == [t |-> "null", date |-> Undef, location |-> Undef]

\* /^\d{1,2} [a-z]+ \d{4}$/i
DateMatches(s) ==
    \E n \in 1..2 :
        LET w == Len(s) - n - 6
        IN /\ w >= 1
           /\ \A i \in 1..n : s[i] \in Digits
           /\ s[n + 1] = " "
           /\ \A i \in (n + 2)..(n + 1 + w) : s[i] \in Letters
           /\ s[n + w + 2] = " "
           /\ \A i \in (n + w + 3)..(n + w + 6) : s[i] \in Digits

\* the filter callback: isValid
IsValidEvent(e) ==
    /\ e.date.t = "string"
    /\ e.location.t = "string"
    /\ DateMatches(e.date.v)
    /\ Includes(e.location.v, ",")

\* parsed.events.filter(...), the surviving events as {date, location}
RECURSIVE FilterEvents(_)
FilterEvents(events) ==
    IF events = <<>> THEN <<>>
    ELSE IF IsValidEvent(Head(events))
         THEN <<[date |-> Head(events).date.v, location |-> Head(events).location.v]>>
              \o FilterEvents(Tail(events))
         ELSE FilterEvents(Tail(events))

DateNotFound == <<"D", "a", "t", "e", " ", "n", "o", "t", " ", "f", "o", "u", "n", "d">>
LocationNotFound ==
    <<"L", "o", "c", "a", "t", "i", "o", "n", " ", "n", "o", "t", " ", "f", "o", "u", "n", "d">>

Sentinel == [date |-> DateNotFound, location |-> LocationNotFound]

\* contact of the parsed response: absent, or an object with name and email
NoContactJson == [t |-> "undefined", name |-> Undef, email |-> Undef]
ContactJson(n, e) == [t |-> "object", name |-> n, email |-> e]

IsValidContactNoAt(c) ==
    /\ c.name.t = "string"
    /\ c.email.t = "string"

\* isValidContact
IsValidContact(c) ==
    /\ c.name.t = "string"
    /\ c.email.t = "string"
    /\ Includes(c.email.v, "@")

\* the contact field of the returned value (deleted when invalid)
ContactOf(c) ==
    IF c.t = "object" /\ IsValidContact(c)
    THEN [present |-> TRUE, name |-> c.name.v, email |-> c.email.v]
    ELSE NoContact

\* what one chat.completions.create call can yield
Response(kind, isArray, events, contact) ==
    [kind |-> kind, isArray |-> isArray, events |-> events, contact |-> contact]

TransportError == Response("rejected", FALSE, <<>>, NoContactJson)
EmptyContent == Response("empty", FALSE, <<>>, NoContactJson)
MalformedJson == Response("malformed", FALSE, <<>>, NoContactJson)
EventsNotArray == Response("parsed", FALSE, <<>>, NoContactJson)
Parsed(events, contact) == Response("parsed", TRUE, events, contact)

InnerThrowsOnInvalidEvent(resp) ==
    \/ resp.kind = "malformed"
    \/ resp.kind = "parsed" /\ ~resp.isArray
    \/ resp.kind = "parsed" /\ \E i \in 1..Len(resp.events) :
            resp.events[i].t = "null" \/ ~IsValidEvent(resp.events[i])

\* the lines 166-206 throw inside the inner try: JSON.parse fails, events is
\* no array, or the filter callback reads .date of a null element
InnerThrows(resp) ==
    \/ resp.kind = "malformed"
    \/ resp.kind = "parsed" /\ ~resp.isArray
    \/ resp.kind = "parsed" /\ \E i \in 1..Len(resp.events) : resp.events[i].t = "null"

\* the await rejects, or `if (!result) throw` fires: straight to the outer catch
OuterThrows(resp) == resp.kind \in {"rejected", "empty"}

ResultOfNoSentinel(resp) ==
    [events |-> FilterEvents(resp.events), contact |-> ContactOf(resp.contact)]

\* the value returned at lines 201-206
ResultOf(resp) ==
    [events |-> IF Len(FilterEvents(resp.events)) # 0
                THEN FilterEvents(resp.events)
                ELSE <<Sentinel>>,
     contact |-> ContactOf(resp.contact)]

MayRetryOnceMore(retryCount) == retryCount <= MAX_RETRIES

\* retryCount < MAX_RETRIES, the test of both catch blocks
MayRetry(retryCount) == retryCount < MAX_RETRIES

\* what one invocation does with the response to its request.  The inner
\* catch returns the recursive call's promise, which the outer catch does not
\* see; its `throw parseError` lands in the outer catch with the same
\* retryCount, which rethrows.
AttemptOutcome(resp, retryCount) ==
    IF InnerThrows(resp) \/ OuterThrows(resp)
    THEN IF MayRetry(retryCount) THEN "retry" ELSE "throw"
    ELSE "return"

NoResult == [events |-> <<>>, contact |-> NoContact]

Idle ==
    [status |-> "idle", retryCount |-> 0, requests |-> 0,
     last |-> TransportError, outcome |-> "none", result |-> NoResult]

\* line 105: !config.openai.apiKey
KeyMissing == ~apiKey

\* entering extractInfoWithLLM(text) with retryCount = 0: without a key the
\* call throws at line 107, before the try and before any request
ExtractCall ==
    ext' = IF KeyMissing THEN [Idle EXCEPT !.status = "thrown"]
           ELSE [Idle EXCEPT !.status = "running"]

\* one invocation: one request, then return, recursion or throw
Attempt(resp) ==
    LET result == AttemptOutcome(resp, ext.retryCount)
    IN /\ ext.status = "running"
       /\ ext' = [status |-> CASE result = "return" -> "returned"
                               [] result = "retry" -> "running"
                               [] OTHER -> "thrown",
                  retryCount |-> IF result = "retry" THEN ext.retryCount + 1
                                 ELSE ext.retryCount,
                  requests |-> ext.requests + 1,
                  last |-> resp,
                  outcome |-> result,
                  result |-> IF result = "return" THEN ResultOf(resp) ELSE NoResult]

----------------------------------------------------------------------------
(* scrapeConcertDetails: the records built from an extraction result *)

\* the keys of eventsByLocation in insertion order: locations, first seen first
RECURSIVE LocationsOf(_, _)
LocationsOf(events, seen) ==
    IF events = <<>> THEN <<>>
    ELSE IF Head(events).location \in seen
         THEN LocationsOf(Tail(events), seen)
         ELSE <<Head(events).location>>
              \o LocationsOf(Tail(events), seen \cup {Head(events).location})

DatesOfAll(events, location) == [i \in 1..Len(events) |-> events[i].date]

\* eventsByLocation[location]: the dates pushed for it, in event order
RECURSIVE DatesAt(_, _)
DatesAt(events, location) ==
    IF events = <<>> THEN <<>>
    ELSE IF Head(events).location = location
         THEN <<Head(events).date>> \o DatesAt(Tail(events), location)
         ELSE DatesAt(Tail(events), location)

\* createConcertObjects / the tail of scrapeConcertDetails
CreateConcertObjects(link, info) ==
    LET locations == LocationsOf(info.events, {})
    IN [i \in 1..Len(locations) |->
            Concert(link.title, SortDates(DatesAt(info.events, locations[i])),
                    locations[i], info.contact, link.url)]

\* what scrapeConcertDetails(link) returned for the extraction result info
Built(link, info) ==
    [called |-> TRUE, link |-> link, info |-> info,
     concerts |-> CreateConcertObjects(link, info)]

NoBuilt ==
    [called |-> FALSE, link |-> [url |-> "", title |-> ""], info |-> NoResult,
     concerts |-> <<>>]

\* links handed to scrapeConcertDetails
ConcertLinks == {[url |-> "u1", title |-> "Band"], [url |-> "u2", title |-> "Solo"]}

----------------------------------------------------------------------------
(* extractInfoWithLLM and scrapeConcertDetails: inputs and calls *)

\* the model's answers used as inputs
DateNoDay == <<"j", "u", "n", "i", " ", "2", "0", "2", "5">>
LocNoComma == <<"N", "o", "C", "o", "m", "m", "a">>
MailNoAt == <<"k", "l", "n">>

EventElements ==
    { Obj(Str(DateA), Str(LocA)),
      Obj(Str(DateB), Str(LocA)),
      Obj(Str(DateB), Str(LocB)),
      Obj(Str(DateNoDay), Str(LocA)),
      Obj(Str(DateB), Str(LocNoComma)),
      Obj(Num, Str(LocB)),
      Obj(Str(DateNotFound), Str(LocationNotFound)),
      Null }

ContactJsons ==
    { NoContactJson,
      ContactJson(Str(<<"K">>), Str(Mail)),
      ContactJson(Str(<<"K">>), Str(MailNoAt)),
      ContactJson(Num, Str(Mail)),
      ContactJson(Str(<<"K">>), Undef) }

\* arrays of up to MaxEvents elements without a contact, shorter ones with
\* each kind of contact
ParsedResponses ==
    {Parsed(events, NoContactJson) : events \in SeqsUpTo(EventElements, MaxEvents)}
    \cup {Parsed(events, contact) :
            events \in SeqsUpTo(EventElements, MaxEvents - 1), contact \in ContactJsons}

\* a caller invokes extractInfoWithLLM on some text
CallExtract ==
    /\ pc = "idle"
    /\ ext.status # "running"
    /\ ExtractCall
    /\ built' = NoBuilt
    /\ UNCHANGED <<apiKey, syncVars, mainVars, sideVars>>

\* the request is rejected (transport failure)
RequestRejected ==
    /\ pc = "idle"
    /\ Attempt(TransportError)
    /\ UNCHANGED <<apiKey, syncVars, mainVars, built, sideVars>>

\* the completion has no content
ResponseEmpty ==
    /\ pc = "idle"
    /\ Attempt(EmptyContent)
    /\ UNCHANGED <<apiKey, syncVars, mainVars, built, sideVars>>

\* the content is no JSON
ResponseMalformed ==
    /\ pc = "idle"
    /\ Attempt(MalformedJson)
    /\ UNCHANGED <<apiKey, syncVars, mainVars, built, sideVars>>

\* the content is JSON whose events field is no array
ResponseEventsNotArray ==
    /\ pc = "idle"
    /\ Attempt(EventsNotArray)
    /\ UNCHANGED <<apiKey, syncVars, mainVars, built, sideVars>>

\* the content is JSON with an events array
ResponseParsed ==
    /\ pc = "idle"
    /\ \E resp \in ParsedResponses : Attempt(resp)
    /\ UNCHANGED <<apiKey, syncVars, mainVars, built, sideVars>>

\* the extraction returned to scrapeConcertDetails, which builds the records
BuildRecords ==
    /\ pc = "idle"
    /\ ext.status = "returned"
    /\ ~built.called
    /\ \E link \in ConcertLinks : built' = Built(link, ext.result)
    /\ UNCHANGED <<apiKey, ext, syncVars, mainVars, sideVars>>

----------------------------------------------------------------------------
(* main: load, discover, scrape each new link, merge, save *)

\* a listing card: the href of its title link ("" when it resolves to none) and its title
Card(href, title) == [href |-> href, title |-> title]

Cards == {Card("u1", "Band"), Card("u2", "Solo"), Card("", "Promo")}

CardLists == SeqsUpTo(Cards, MaxCards)

\* the card scan: cards.map(...).filter(link => link !== null)
RECURSIVE ExtractConcertLinks(_)
ExtractConcertLinks(cards) ==
    IF cards = <<>> THEN <<>>
    ELSE IF Head(cards).href # ""
         THEN <<[url |-> Head(cards).href, title |-> Head(cards).title]>>
              \o ExtractConcertLinks(Tail(cards))
         ELSE ExtractConcertLinks(Tail(cards))

\* new Set(existingConcerts.map(concert => concert.url))
ExistingUrlSet(concerts) == {concerts[i].url : i \in 1..Len(concerts)}

NewLinksUnfiltered(ls, known) == ls

\* links.filter(link => !existingUrls.has(link.url))
RECURSIVE NewLinks(_, _)
NewLinks(ls, known) ==
    IF ls = <<>> THEN <<>>
    ELSE IF Head(ls).url \notin known
         THEN <<Head(ls)>> \o NewLinks(Tail(ls), known)
         ELSE NewLinks(Tail(ls), known)

HasNewLinksAlways(fresh) == TRUE

\* if (newLinks.length > 0)
HasNewLinks(fresh) == Len(fresh) > 0

\* the answers of the model the runs of main draw from
MainResponses ==
    { MalformedJson,
      Parsed(<<Obj(Str(DateA), Str(LocA)), Obj(Str(DateB), Str(LocB))>>,
             ContactJson(Str(<<"K">>), Str(Mail))),
      Parsed(<<Obj(Str(DateB), Str(LocNoComma))>>, NoContactJson),
      Parsed(<<Obj(Str(DateA), Str(LocA)), Obj(Str(DateMei), Str(LocA)),
               Obj(Str(DateMei), Str(LocB))>>, NoContactJson) }

NoClose == [closed |-> FALSE, code |-> 0, outcome |-> "none", sheetsAppend |-> FALSE]

\* the start of a run up to the load: unchanged parts and per-run history
BeginRun(loaded) ==
    /\ pc = "idle"
    /\ ext.status # "running"
    /\ runs < MaxRuns
    /\ runs' = runs + 1
    /\ existingConcerts' = loaded
    /\ fileAtStart' = ledgerFile
    /\ links' = <<>>
    /\ newLinks' = <<>>
    /\ k' = 1
    /\ newConcerts' = <<>>
    /\ errorsMd' = 0
    /\ visited' = <<>>
    /\ outcome' = "running"
    /\ calls' = 0
    /\ saves' = 0
    /\ pc' = "discover"
    /\ built' = NoBuilt
    /\ webhook' = NoClose
    /\ waits' = 0
    /\ failed' = [now |-> {}, prev |-> failed.now]
    /\ UNCHANGED <<entry, ledgerFile, extVars, syncVars, sideVars>>

\* loadExistingConcerts: the file is absent or is read and parsed
LoadExistingConcerts == BeginRun(ledgerFile)

\* loadExistingConcerts: readFileSync or JSON.parse throws on the existing
\* file; the catch logs and [] is returned
LoadExistingConcertsFails ==
    /\ Len(ledgerFile) > 0
    /\ BeginRun(<<>>)

\* getAllConcertLinks returns the links of the cards; main filters them
GetAllConcertLinks ==
    /\ pc = "discover"
    /\ \E cards \in CardLists :
        LET found == ExtractConcertLinks(cards)
            fresh == NewLinks(found, ExistingUrlSet(existingConcerts))
        IN /\ links' = found
           /\ newLinks' = fresh
           /\ pc' = IF HasNewLinks(fresh) THEN "loop" ELSE "done"
           /\ outcome' = IF HasNewLinks(fresh) THEN outcome ELSE "nothingNew"
    /\ UNCHANGED <<entry, ledgerFile, existingConcerts, k, newConcerts, errorsMd,
                   visited, fileAtStart, calls, saves, runs, extVars, syncVars, built,
                   webhook, waits, failed, sideVars>>

\* getAllConcertLinks throws (page.goto of the listing rejects): outer catch
GetAllConcertLinksThrows ==
    /\ pc = "discover"
    /\ pc' = "done"
    /\ outcome' = "discoveryThrew"
    /\ UNCHANGED <<entry, ledgerFile, existingConcerts, links, newLinks, k, newConcerts,
                   errorsMd, visited, fileAtStart, calls, saves, runs, extVars, syncVars, built,
                   webhook, waits, failed, sideVars>>

\* scrapeConcertDetails: page.goto(link.url) rejects; the loop's catch runs
ScrapeNavigateThrows ==
    /\ pc = "loop"
    /\ k <= Len(newLinks)
    /\ visited' = Append(visited, newLinks[k].url)
    /\ failed' = [failed EXCEPT !.now = @ \cup {newLinks[k].url}]
    /\ pc' = "catch"
    /\ built' = NoBuilt
    /\ UNCHANGED <<entry, ledgerFile, existingConcerts, links, newLinks, k, newConcerts,
                   errorsMd, fileAtStart, outcome, calls, saves, runs, extVars, syncVars,
                   webhook, waits, sideVars>>

\* scrapeConcertDetails: the page is loaded, its text taken and handed to
\* extractInfoWithLLM
ScrapeNavigate ==
    /\ pc = "loop"
    /\ k <= Len(newLinks)
    /\ visited' = Append(visited, newLinks[k].url)
    /\ ExtractCall
    /\ calls' = calls + 1
    /\ pc' = "extract"
    /\ built' = NoBuilt
    /\ UNCHANGED <<entry, ledgerFile, existingConcerts, links, newLinks, k, newConcerts,
                   errorsMd, fileAtStart, outcome, saves, runs, apiKey, syncVars,
                   webhook, waits, failed, sideVars>>

\* one invocation of extractInfoWithLLM inside the run
ModelRequest ==
    /\ pc = "extract"
    /\ \E resp \in MainResponses : Attempt(resp)
    /\ UNCHANGED <<apiKey, mainVars, syncVars, built, sideVars>>

\* extraction returned: build the records, push them, count, and await
\* delay(config.delayBetweenRequests) before the next iteration
ScrapeReturns ==
    /\ pc = "extract"
    /\ ext.status = "returned"
    /\ newConcerts' = newConcerts \o CreateConcertObjects(newLinks[k], ext.result)
    /\ built' = Built(newLinks[k], ext.result)
    /\ k' = k + 1
    /\ pc' = "loop"
    /\ ext' = Idle
    /\ waits' = waits + 1
    /\ UNCHANGED <<entry, ledgerFile, existingConcerts, links, newLinks, errorsMd,
                   visited, fileAtStart, outcome, calls, saves, runs, apiKey, syncVars,
                   webhook, failed, sideVars>>

\* extraction threw: the loop's catch runs
ScrapeThrows ==
    /\ pc = "extract"
    /\ ext.status = "thrown"
    /\ failed' = [failed EXCEPT !.now = @ \cup {newLinks[k].url}]
    /\ pc' = "catch"
    /\ UNCHANGED <<entry, ledgerFile, existingConcerts, links, newLinks, k, newConcerts,
                   errorsMd, visited, fileAtStart, outcome, calls, saves, runs, extVars,
                   syncVars, built, webhook, waits, sideVars>>

\* the catch: logError appends the entry, the loop goes on
LogError ==
    /\ pc = "catch"
    /\ errorsMd' = errorsMd + 1
    /\ k' = k + 1
    /\ pc' = "loop"
    /\ ext' = Idle
    /\ UNCHANGED <<entry, ledgerFile, existingConcerts, links, newLinks, newConcerts,
                   visited, fileAtStart, outcome, calls, saves, runs, apiKey, syncVars, built,
                   webhook, waits, failed, sideVars>>

\* the catch: fs.appendFileSync throws.  StorageService.logError catches it
\* and the loop goes on; index.ts's logError does not, and the exception
\* leaves the loop for main's outer catch
LogErrorFails ==
    /\ pc = "catch"
    /\ IF entry = "service"
       THEN /\ k' = k + 1
            /\ pc' = "loop"
            /\ outcome' = outcome
       ELSE /\ k' = k
            /\ pc' = "done"
            /\ outcome' = "logErrorThrew"
    /\ ext' = Idle
    /\ UNCHANGED <<entry, ledgerFile, existingConcerts, links, newLinks, newConcerts,
                   errorsMd, visited, fileAtStart, calls, saves, runs, apiKey, syncVars, built,
                   webhook, waits, failed, sideVars>>

AllConcertsNewOnly == SortConcerts(newConcerts)

AllConcertsOfFile == SortConcerts(ledgerFile \o newConcerts)

\* [...existingConcerts, ...newConcerts].sort(...)
AllConcerts == SortConcerts(existingConcerts \o newConcerts)

\* after the loop: merge, sort and write the file
MergeAndSave ==
    /\ pc = "loop"
    /\ k > Len(newLinks)
    /\ ledgerFile' = AllConcerts
    /\ saves' = saves + 1
    /\ pc' = "done"
    /\ outcome' = "saved"
    /\ UNCHANGED <<entry, existingConcerts, links, newLinks, k, newConcerts, errorsMd,
                   visited, fileAtStart, calls, runs, extVars, syncVars, built,
                   webhook, waits, failed, sideVars>>

\* after the loop: writeFileSync throws.  index.ts lets it reach the outer
\* catch; StorageService.saveConcerts catches and logs it
MergeAndSaveFails ==
    /\ pc = "loop"
    /\ k > Len(newLinks)
    /\ pc' = "done"
    /\ outcome' = IF entry = "service" THEN "saveErrorLogged" ELSE "failed"
    /\ UNCHANGED <<entry, ledgerFile, existingConcerts, links, newLinks, k, newConcerts,
                   errorsMd, visited, fileAtStart, calls, saves, runs, extVars, syncVars, built,
                   webhook, waits, failed, sideVars>>

\* main().catch: index.ts only logs a rejection of main, the service version
\* exits with code 1
ExitCode(mainRejects) == IF mainRejects /\ entry = "service" THEN 1 ELSE 0

\* the webhook's close handler: code 0 counts as success and starts the
\* spreadsheet step
Closed(code) ==
    [closed |-> TRUE, code |-> code, outcome |-> outcome, sheetsAppend |-> code = 0]

\* finally: the browser is closed (main rejects when that fails) and the
\* process ends, its locals with it; the webhook sees the exit code
EndRun ==
    /\ pc = "done"
    /\ runs < MaxRuns
    /\ \E closeFails \in BOOLEAN : webhook' = Closed(ExitCode(closeFails))
    /\ pc' = "idle"
    /\ existingConcerts' = <<>>
    /\ links' = <<>>
    /\ newLinks' = <<>>
    /\ k' = 1
    /\ newConcerts' = <<>>
    /\ errorsMd' = 0
    /\ visited' = <<>>
    /\ fileAtStart' = <<>>
    /\ outcome' = "none"
    /\ calls' = 0
    /\ saves' = 0
    /\ built' = NoBuilt
    /\ waits' = 0
    /\ UNCHANGED <<entry, ledgerFile, runs, extVars, syncVars, failed, sideVars>>

----------------------------------------------------------------------------
(* scrapeConcertDetails: the page text handed to extractInfoWithLLM *)

\* A page is the sequence of its elements' trimmed textContent, in document
\* order; a text is known by its identity, its length, the length of
\* text.split(' '), whether it holds one of the filtered words, and whether
\* its element is displayed.  Texts are measured, not spelled out.

maxUniquePieces == 50
maxLength == 8000

\* [...new Set(relevantElements)]: the first occurrence of each text
RECURSIVE Unique(_, _)
Unique(texts, seen) ==
    IF texts = <<>> THEN <<>>
    ELSE IF Head(texts).id \in seen THEN Unique(Tail(texts), seen)
    ELSE <<Head(texts)>> \o Unique(Tail(texts), seen \cup {Head(texts).id})

\* texts.join('\n').length
RECURSIVE JoinedLength(_)
JoinedLength(texts) ==
    IF texts = <<>> THEN 0
    ELSE IF Len(texts) = 1 THEN Head(texts).len
    ELSE Head(texts).len + 1 + JoinedLength(Tail(texts))

\* ScraperService.extractPageContent of the services version: the selected
\* texts, de-duplicated, the first 50 of them joined and cut at maxLength
ExtractPageContentTargeted(page) ==
    LET Relevant(t) == /\ t.len > 10 /\ t.len < 500
                       /\ ~t.boiler
                       /\ t.words > 2
        uniqueContent == Unique(SelectSeq(page, Relevant), {})
        limitedContent ==
            IF Len(uniqueContent) > maxUniquePieces
            THEN SubSeq(uniqueContent, 1, maxUniquePieces)
            ELSE uniqueContent
        fullText == JoinedLength(limitedContent)
    IN [pieces |-> Len(limitedContent),
        length |-> IF fullText > maxLength THEN maxLength + 3 ELSE fullText]

\* index.ts and the earlier ScraperService: every displayed element's
\* non-empty text, joined, then a newline and the contact section's text
ExtractPageContentBroad(page, contactSection) ==
    LET Visible(t) == t.shown /\ t.len > 0
        allElements == SelectSeq(page, Visible)
    IN [pieces |-> Len(allElements),
        length |-> JoinedLength(allElements) + 1 + contactSection]

\* the pages of the model: n different texts of one length, in front of
\* them a hidden cookie banner or not, each text once or twice on the page
Pages ==
    LET Body(n, len, words) ==
            [i \in 1..n |->
                [id |-> i, len |-> len, words |-> words, boiler |-> FALSE,
                 shown |-> TRUE]]
        Banner == [id |-> 0, len |-> 30, words |-> 4, boiler |-> TRUE, shown |-> FALSE]
        PageOf(n, len, words, banner, twice) ==
            (IF banner THEN <<Banner>> ELSE <<>>)
            \o Body(n, len, words)
            \o (IF twice THEN Body(n, len, words) ELSE <<>>)
    IN {PageOf(n, len, words, banner, twice) :
            n \in 0..MaxFragments, len \in {0, 10, 11, 160, 499, 500},
            words \in {2, 3}, banner \in BOOLEAN, twice \in BOOLEAN}

\* the text of a page is taken and put into the prompt as it is
\* (`Text to analyze:\n${text}`); one page is looked at
ExtractPageContent ==
    /\ ~norm.called
    /\ \E policy \in {"targeted", "broad"}, page \in Pages, contactSection \in {0, 40} :
        LET content == IF policy = "targeted"
                       THEN ExtractPageContentTargeted(page)
                       ELSE ExtractPageContentBroad(page, contactSection)
        IN /\ policy = "targeted" => contactSection = 0
           /\ norm' = [called |-> TRUE, policy |-> policy, page |-> page,
                       pieces |-> content.pieces, fullText |-> content.length,
                       inPrompt |-> content.length]
           /\ UNCHANGED <<syncVars, extVars, mainVars, built, parked, disc, app>>

----------------------------------------------------------------------------
(* Two scraper processes: each accepted webhook request spawns one *)

\* what a scraper process holds in its own memory
Locals ==
    [pc |-> pc, existingConcerts |-> existingConcerts, links |-> links,
     newLinks |-> newLinks, k |-> k, newConcerts |-> newConcerts,
     errorsMd |-> errorsMd, visited |-> visited, fileAtStart |-> fileAtStart,
     outcome |-> outcome, calls |-> calls, saves |-> saves, waits |-> waits,
     failed |-> failed, ext |-> ext, built |-> built]

\* a process that no request has spawned yet
NoParked ==
    [pc |-> "idle", existingConcerts |-> <<>>, links |-> <<>>, newLinks |-> <<>>,
     k |-> 1, newConcerts |-> <<>>, errorsMd |-> 0, visited |-> <<>>,
     fileAtStart |-> <<>>, outcome |-> "none", calls |-> 0, saves |-> 0,
     waits |-> 0, failed |-> [now |-> {}, prev |-> {}], ext |-> Idle,
     built |-> NoBuilt]

\* a process that has ended: its memory is gone; what it loaded, built and
\* did to the file is kept as history
Ended ==
    [NoParked EXCEPT !.pc = pc, !.existingConcerts = existingConcerts,
                     !.newConcerts = newConcerts, !.fileAtStart = fileAtStart,
                     !.outcome = outcome, !.saves = saves]

\* The other process gets to run.  The request handler spawns a process
\* without looking for one in progress, so the other process may be unspawned,
\* or spawned and past its load.  The processes share only the ledger file,
\* which each reads once (the load) and writes once (the save), so it is
\* enough to let them alternate right after a load and after the end.
Switch ==
    /\ pc \in {"discover", "done"}
    /\ parked.pc \in {"idle", "discover"}
    /\ parked' = IF pc = "done" THEN Ended ELSE Locals
    /\ pc' = parked.pc
    /\ existingConcerts' = parked.existingConcerts
    /\ links' = parked.links
    /\ newLinks' = parked.newLinks
    /\ k' = parked.k
    /\ newConcerts' = parked.newConcerts
    /\ errorsMd' = parked.errorsMd
    /\ visited' = parked.visited
    /\ fileAtStart' = parked.fileAtStart
    /\ outcome' = parked.outcome
    /\ calls' = parked.calls
    /\ saves' = parked.saves
    /\ waits' = parked.waits
    /\ failed' = parked.failed
    /\ ext' = parked.ext
    /\ built' = parked.built
    /\ UNCHANGED <<entry, ledgerFile, webhook, runs, apiKey, syncVars, disc, norm, app>>

----------------------------------------------------------------------------
(* getAllConcertLinks, step by step: the load-more loop and the card scan *)

maxLoadMoreClicks == 3

NoDisc ==
    [status |-> "idle", i |-> 0, clicks |-> 0, cards |-> <<>>, open |-> TRUE,
     settle |-> "none", stopped |-> "no", links |-> <<>>]

LoopGoesOnOneMore(i) == i <= maxLoadMoreClicks

\* the loop condition i < config.maxLoadMoreClicks
LoopGoesOn(i) == i < maxLoadMoreClicks

\* page.goto(config.baseUrl) and the first delay: the listing shows its first
\* cards, or the navigation rejects and getAllConcertLinks throws
StartDiscovery ==
    /\ disc.status \in {"idle", "returned", "threw"}
    /\ \E gotoFails \in BOOLEAN, cards \in CardLists :
        disc' = IF gotoFails
                THEN [NoDisc EXCEPT !.status = "threw"]
                ELSE [NoDisc EXCEPT !.cards = cards,
                                    !.status = IF LoopGoesOn(0) THEN "expanding"
                                               ELSE "scanning"]
    /\ UNCHANGED <<syncVars, extVars, mainVars, built, parked, norm, app>>

\* one evaluate of the load-more lookup: the button is found and clicked, it
\* is not found (break), or the evaluate rejects (outer catch: break).  On a
\* closed page the evaluate can only reject.
ClickLoadMoreButton ==
    /\ disc.status = "expanding"
    /\ \E result \in {"clicked", "notFound", "threw"} :
        /\ ~disc.open => result = "threw"
        /\ disc' = IF result = "clicked"
                   THEN [disc EXCEPT !.clicks = @ + 1, !.status = "settling"]
                   ELSE [disc EXCEPT !.stopped = result, !.status = "scanning"]
    /\ UNCHANGED <<syncVars, extVars, mainVars, built, parked, norm, app>>

\* page.waitForNetworkIdle({timeout: 5000}), whose rejection (the timeout,
\* or the page having been closed) the inner catch swallows, then
\* delay(2000) and i++.  Cards requested by the click may have arrived.
WaitForNetworkIdle ==
    /\ disc.status = "settling"
    /\ \E result \in {"idle", "timeout", "closed"}, more \in SeqsUpTo(Cards, 1) :
        /\ Len(disc.cards) + Len(more) <= MaxCards
        /\ result = "closed" => more = <<>>
        /\ disc' = [disc EXCEPT
                        !.settle = result,
                        !.open = result # "closed",
                        !.cards = @ \o more,
                        !.i = @ + 1,
                        !.stopped = IF LoopGoesOn(disc.i + 1) THEN "no" ELSE "max",
                        !.status = IF LoopGoesOn(disc.i + 1) THEN "expanding"
                                   ELSE "scanning"]
    /\ UNCHANGED <<syncVars, extVars, mainVars, built, parked, norm, app>>

\* the card scan after the loop: the links of the cards now on the page are
\* returned, or the evaluate rejects and getAllConcertLinks throws
ScanCards ==
    /\ disc.status = "scanning"
    /\ \E scanFails \in BOOLEAN :
        /\ ~disc.open => scanFails
        /\ disc' = IF scanFails
                   THEN [disc EXCEPT !.status = "threw"]
                   ELSE [disc EXCEPT !.status = "returned",
                                     !.links = ExtractConcertLinks(disc.cards)]
    /\ UNCHANGED <<syncVars, extVars, mainVars, built, parked, norm, app>>

----------------------------------------------------------------------------
(* Specifications *)

InitExtractIdle == ext = Idle

InitMainIdle ==
    /\ ledgerFile = <<>>
    /\ pc = "idle"
    /\ existingConcerts = <<>>
    /\ links = <<>>
    /\ newLinks = <<>>
    /\ k = 1
    /\ newConcerts = <<>>
    /\ errorsMd = 0
    /\ visited = <<>>
    /\ fileAtStart = <<>>
    /\ outcome = "none"
    /\ calls = 0
    /\ saves = 0
    /\ webhook = NoClose
    /\ runs = 0
    /\ built = NoBuilt
    /\ waits = 0
    /\ failed = [now |-> {}, prev |-> {}]

InitSideIdle ==
    /\ parked = NoParked
    /\ disc = NoDisc
    /\ norm = [called |-> FALSE, policy |-> "none", page |-> <<>>, pieces |-> 0,
               fullText |-> 0, inPrompt |-> 0]
    /\ app = [called |-> FALSE, concerts |-> <<>>, before |-> <<>>,
              readFailed |-> FALSE, values |-> <<>>, fresh |-> <<>>, ok |-> FALSE,
              prevCalled |-> FALSE, prevConcerts |-> <<>>, prevOk |-> FALSE]

\* the reconciler alone: calls of syncConcerts on a tab that starts empty
NextSync == SyncConcerts \/ SyncConcertsThrows

InitSpecSync ==
    /\ InitSync /\ InitExtractIdle /\ InitMainIdle /\ InitSideIdle
    /\ apiKey = TRUE /\ entry = "service"

SpecSync == InitSpecSync /\ [][NextSync]_vars

\* the append script: calls of appendConcerts on a tab that starts empty
InitSpecAppend ==
    /\ InitSync /\ InitExtractIdle /\ InitMainIdle /\ InitSideIdle
    /\ apiKey = TRUE /\ entry = "service"

SpecAppend == InitSpecAppend /\ [][AppendConcerts]_vars

\* the extraction engine and the record builder: calls of extractInfoWithLLM
\* and the records scrapeConcertDetails builds from what they return
NextExtract ==
    \/ CallExtract
    \/ RequestRejected
    \/ ResponseEmpty
    \/ ResponseMalformed
    \/ ResponseEventsNotArray
    \/ ResponseParsed
    \/ BuildRecords

InitSpecExtract ==
    /\ InitSync /\ InitExtractIdle /\ InitMainIdle /\ InitSideIdle
    /\ apiKey \in BOOLEAN /\ entry = "service"

SpecExtract == InitSpecExtract /\ [][NextExtract]_vars

\* discovery alone: calls of getAllConcertLinks
NextDiscover ==
    \/ StartDiscovery
    \/ ClickLoadMoreButton
    \/ WaitForNetworkIdle
    \/ ScanCards

InitSpecDiscover ==
    /\ InitSync /\ InitExtractIdle /\ InitMainIdle /\ InitSideIdle
    /\ apiKey = TRUE /\ entry = "service"

SpecDiscover == InitSpecDiscover /\ [][NextDiscover]_vars

\* the page text alone: calls of extractPageContent on the pages of the model
InitSpecNormalize ==
    /\ InitSync /\ InitExtractIdle /\ InitMainIdle /\ InitSideIdle
    /\ apiKey = TRUE /\ entry = "service"

SpecNormalize == InitSpecNormalize /\ [][ExtractPageContent]_vars

\* two scraper processes spawned by two webhook requests (node dist/index.js)
NextOverlap ==
    \/ LoadExistingConcerts
    \/ LoadExistingConcertsFails
    \/ GetAllConcertLinks
    \/ GetAllConcertLinksThrows
    \/ ScrapeNavigateThrows
    \/ ScrapeNavigate
    \/ ModelRequest
    \/ ScrapeReturns
    \/ ScrapeThrows
    \/ LogError
    \/ LogErrorFails
    \/ MergeAndSave
    \/ MergeAndSaveFails
    \/ Switch

InitSpecOverlap ==
    /\ InitSync /\ InitExtractIdle /\ InitMainIdle /\ InitSideIdle
    /\ apiKey = TRUE
    /\ entry = "index"

SpecOverlap == InitSpecOverlap /\ [][NextOverlap]_vars

\* runs of main, one after the other
Init ==
    /\ InitSync /\ InitExtractIdle /\ InitMainIdle /\ InitSideIdle
    /\ apiKey \in BOOLEAN
    /\ entry \in {"index", "service"}

Next ==
    \/ LoadExistingConcerts
    \/ LoadExistingConcertsFails
    \/ GetAllConcertLinks
    \/ GetAllConcertLinksThrows
    \/ ScrapeNavigateThrows
    \/ ScrapeNavigate
    \/ ModelRequest
    \/ ScrapeReturns
    \/ ScrapeThrows
    \/ LogError
    \/ LogErrorFails
    \/ MergeAndSave
    \/ MergeAndSaveFails
    \/ EndRun

Spec == Init /\ [][Next]_vars

----------------------------------------------------------------------------
(* Claims about the Reconciler *)

\* rows of the initial read of the last call that carry the url of concert c
RowsWithUrl(c) == {p \in 1..Len(sync.values) : sync.values[p][6] = c.url}

\* the last call was a second reconcile of the same records against the store
\* a successful reconcile of them left behind, and its own read succeeded
SecondReconcile ==
    /\ sync.called /\ ~sync.readFailed
    /\ prevSync.called /\ prevSync.ok
    /\ prevSync.concerts = sync.concerts

\* C1: reconciling the same record set again against the store a successful
\* reconcile of it produced classifies no record as new or updated and
\* issues no append and no update.
C1_Idempotent ==
    SecondReconcile =>
        /\ \A i \in 1..Len(sync.classes) : sync.classes[i] = "unchanged"
        /\ sync.writes = <<>>

\* C2: every record gets exactly one classification: new iff no row of the
\* initial read carries its url; unchanged iff a row with its url exists whose
\* first six cells equal the record's six fields; updated iff a row with its
\* url exists and one of the six differs.
C2_Classification ==
    sync.called =>
        \A i \in 1..Len(sync.concerts) :
            LET c == sync.concerts[i]
                cls == sync.classes[i]
            IN /\ cls \in {"new", "unchanged", "updated"}
               /\ cls = "new" <=> RowsWithUrl(c) = {}
               /\ cls = "unchanged" <=>
                    \E p \in RowsWithUrl(c) : NewData(c) = FirstSix(sync.values[p])
               /\ cls = "updated" <=>
                    \E p \in RowsWithUrl(c) : NewData(c) # FirstSix(sync.values[p])

\* the rows of the initial read, header apart, that carry the url
RowsOfUrl(url) == {p \in 2..Len(sync.values) : sync.values[p][6] = url}

\* the record's url is known and the last row that carries it holds the
\* record's six fields
FieldEqual(c) ==
    /\ RowsOfUrl(c.url) # {}
    /\ \E p \in RowsOfUrl(c.url) :
            /\ \A q \in RowsOfUrl(c.url) : q <= p
            /\ FirstSix(sync.values[p]) = NewData(c)

\* the write carries the six fields of the record
WritesRecord(w, c) == \E r \in 1..Len(w.rows) : FirstSix(w.rows[r]) = NewData(c)

\* C17: the reconciler only appends and updates; it issues no write for a
\* record that is field-equal to its row; the store never shrinks; a row it
\* changes was addressed by the update of a record classified updated that
\* carries the row's url; a row whose url matches no input record is
\* untouched.
C17_NeverDeletesWritesMinimally ==
    sync.called =>
        /\ \A n \in 1..Len(sync.writes) : sync.writes[n].op \in {"append", "update"}
        /\ Len(sheet) >= Len(sync.before)
        /\ \A i \in 1..Len(sync.concerts) :
                FieldEqual(sync.concerts[i]) =>
                    /\ sync.classes[i] = "unchanged"
                    /\ \A n \in 1..Len(sync.writes) :
                            ~WritesRecord(sync.writes[n], sync.concerts[i])
        /\ \A p \in 1..Len(sync.before) :
                /\ sheet[p] # sync.before[p] =>
                        \E i \in 1..Len(sync.concerts), n \in 1..sync.applied :
                            /\ sync.classes[i] = "updated"
                            /\ sync.concerts[i].url = sync.before[p][6]
                            /\ sync.writes[n].op = "update"
                            /\ sync.writes[n].row = p
                            /\ WritesRecord(sync.writes[n], sync.concerts[i])
                /\ (\A i \in 1..Len(sync.concerts) :
                        sync.concerts[i].url # sync.before[p][6]) =>
                            sheet[p] = sync.before[p]

\* a call updated one row and left a data row of another url alone
C17_Witness ==
    /\ sync.called /\ sync.ok
    /\ \E p \in 2..Len(sync.before) : sheet[p] # sync.before[p]
    /\ \E p \in 2..Len(sync.before) :
            \A i \in 1..Len(sync.concerts) : sync.concerts[i].url # sync.before[p][6]

\* the write is the append of the header row
IsHeaderWrite(w) ==
    /\ w.op = "append"
    /\ w.rows = << << "Title", Headers[2], Headers[3], Headers[4], Headers[5],
                      "URL", "Last Updated" >> >>

\* C18 as stated: whenever the initial read returns zero rows or fails, the
\* header row is written, before any data row; whenever it returns at least
\* one row, no header row is written.
C18_HeaderBootstrap ==
    sync.called =>
        /\ Len(sync.values) = 0 =>
                (sync.writes # <<>> /\ IsHeaderWrite(sync.writes[1]))
        /\ Len(sync.values) > 0 =>
                \A n \in 1..Len(sync.writes) : ~IsHeaderWrite(sync.writes[n])

\* C18 amended: when the initial read returns zero rows or fails and there is
\* at least one input record, the first write is the header row and no
\* other write is; with no input record nothing is written; when the read
\* returns at least one row, no header row is written.
C18_HeaderBootstrapWhenWriting ==
    sync.called =>
        /\ (Len(sync.values) = 0 /\ sync.concerts # <<>>) =>
                /\ Len(sync.writes) = 2
                /\ IsHeaderWrite(sync.writes[1])
                /\ ~IsHeaderWrite(sync.writes[2])
                /\ (sync.ok /\ sync.before = <<>>) => sheet[1] = Headers
        /\ (sync.readFailed \/ sync.before = <<>>) => Len(sync.values) = 0
        /\ sync.concerts = <<>> => sync.writes = <<>>
        /\ Len(sync.values) > 0 =>
                \A n \in 1..Len(sync.writes) : ~IsHeaderWrite(sync.writes[n])

\* the read of a store that holds rows failed, and the header was written
\* again ahead of the data rows
C18_Witness ==
    /\ sync.called /\ sync.ok
    /\ sync.readFailed
    /\ Len(sync.before) > 0
    /\ Len(sync.writes) = 2
    /\ IsHeaderWrite(sync.writes[1])
    /\ sheet[Len(sync.before) + 1] = Headers

\* the writes of the last call that are updates / appends of data rows
UpdateWrites == SelectSeq(sync.writes, LAMBDA w : w.op = "update")
DataAppends == SelectSeq(sync.writes, LAMBDA w : w.op = "append" /\ ~IsHeaderWrite(w))

\* the input records whose url no row of the initial read carries / whose
\* last row with their url differs from them
RecordsNew == SelectSeq(sync.concerts, LAMBDA c : RowsOfUrl(c.url) = {})
RecordsUpdated ==
    SelectSeq(sync.concerts, LAMBDA c : RowsOfUrl(c.url) # {} /\ ~FieldEqual(c))

\* C19: the new records are appended by one batch write; every updated
\* record gets exactly one update, addressed to a row of the initial read
\* that carries its url (1-based sheet row); after the call every row of the
\* initial read still carries the url it carried.
C19_BatchAppendAndAddressedUpdates ==
    sync.called =>
        /\ Len(DataAppends) = IF RecordsNew = <<>> THEN 0 ELSE 1
        /\ RecordsNew # <<>> =>
                /\ Len(DataAppends[1].rows) = Len(RecordsNew)
                /\ \A i \in 1..Len(RecordsNew) :
                        FirstSix(DataAppends[1].rows[i]) = NewData(RecordsNew[i])
        /\ Len(UpdateWrites) = Len(RecordsUpdated)
        /\ \A i \in 1..Len(UpdateWrites) :
                /\ UpdateWrites[i].row \in RowsOfUrl(RecordsUpdated[i].url)
                /\ Len(UpdateWrites[i].rows) = 1
                /\ FirstSix(UpdateWrites[i].rows[1]) = NewData(RecordsUpdated[i])
        /\ \A p \in 1..Len(sync.before) : sheet[p][6] = sync.before[p][6]

\* one call appended a new record and updated the row of a changed one
C19_Witness ==
    /\ sync.called /\ sync.ok
    /\ Len(DataAppends) = 1
    /\ Len(UpdateWrites) = 1
    /\ UpdateWrites[1].row = 2
    /\ sheet[2] # sync.before[2]
    /\ Len(sheet) = Len(sync.before) + 1

----------------------------------------------------------------------------
(* Claims about a run of main *)

\* the urls of a sequence of links, in order
UrlsOf(ls) == [i \in 1..Len(ls) |-> ls[i].url]

\* how often x occurs in seq
Count(x, seq) == Cardinality({i \in 1..Len(seq) : seq[i] = x})

\* no value occurs twice in seq
NoDuplicates(seq) == \A i, j \in 1..Len(seq) : seq[i] = seq[j] => i = j

\* every occurrence of a record in part is matched by one in whole
AllIn(part, whole) ==
    \A i \in 1..Len(part) : Count(part[i], whole) >= Count(part[i], part)

\* C3: when a run has ended, every record the ledger file held when the run
\* started is still in the ledger file, with identical fields.
C3_LedgerPreserved == pc = "done" => AllIn(fileAtStart, ledgerFile)

\* C4: in every run that found new candidates and did not fail at the save
\* itself, each new candidate was attempted exactly once in discovery order,
\* and the ledger was saved with the records of every candidate that succeeded.
C4_BatchNotAborted ==
    (pc = "done" /\ newLinks # <<>> /\ outcome \notin {"failed", "saveErrorLogged"}) =>
        /\ visited = UrlsOf(newLinks)
        /\ outcome = "saved"
        /\ AllIn(newConcerts, ledgerFile)

\* C6: no url of a record of the ledger loaded at the start of the run is
\* navigated to or sent to extraction in that run.
C6_NoKnownUrl ==
    /\ \A i \in 1..Len(visited) : visited[i] \notin ExistingUrlSet(existingConcerts)
    /\ \A i \in 1..Len(newLinks) : newLinks[i].url \notin ExistingUrlSet(existingConcerts)
    /\ pc \in {"extract", "catch"} => newLinks[k].url \notin ExistingUrlSet(existingConcerts)

\* a run ended in which discovery listed a url of the loaded ledger next to
\* a new one, and the new one was processed
C6_Witness ==
    /\ pc = "done"
    /\ \E i \in 1..Len(links) : links[i].url \in ExistingUrlSet(existingConcerts)
    /\ Len(visited) > 0
    /\ calls > 0

\* C7: the candidate sequence returned by discovery holds no url twice, and
\* within one run no url is processed twice.
C7_Deduplicated == NoDuplicates(UrlsOf(links)) /\ NoDuplicates(visited)

\* C8: without an API key the first extraction attempt fails without a
\* model request and the run aborts, so that no second candidate reaches
\* extraction.
C8_MissingKeyAborts == ~apiKey => (ext.requests = 0 /\ calls <= 1)

----------------------------------------------------------------------------
(* Claims about the extraction engine *)

\* a date of the form: 1-2 digits, space, letters, space, 4 digits
PatternOk(s) ==
    LET parts == Split(s, " ")
    IN /\ Len(parts) = 3
       /\ Len(parts[1]) \in 1..2 /\ Range(parts[1]) \subseteq Digits
       /\ Len(parts[2]) >= 1 /\ Range(parts[2]) \subseteq Letters
       /\ Len(parts[3]) = 4 /\ Range(parts[3]) \subseteq Digits

\* an element of the events array that passes validation
ValidElement(e) ==
    /\ e.t = "object"
    /\ e.date.t = "string" /\ e.location.t = "string"
    /\ PatternOk(e.date.v)
    /\ "," \in Range(e.location.v)

\* the valid events of an events array, in their order
ValidOnes(events) ==
    LET kept == SelectSeq(events, ValidElement)
    IN [i \in 1..Len(kept) |-> [date |-> kept[i].date.v, location |-> kept[i].location.v]]

\* the last attempt failed: transport failure, empty response, malformed
\* JSON, an events field that is no array, or an element that is no object
Failed(resp) ==
    \/ resp.kind \in {"rejected", "empty", "malformed"}
    \/ ~resp.isArray
    \/ \E i \in 1..Len(resp.events) : resp.events[i].t # "object"

\* C5: with a key, one call issues at most 1 + 3 requests; every failed
\* attempt, whatever its kind, took one unit of the one retry counter; the
\* first attempt that parses and validates returns with no further request;
\* the call throws only after 4 failed attempts.
C5_AtMostFourRequests ==
    apiKey =>
        /\ ext.requests <= 4
        /\ ext.retryCount <= 3
        /\ ext.status = "running" => (ext.requests = ext.retryCount /\ ext.requests < 4)
        /\ (ext.status = "running" /\ ext.requests > 0) => Failed(ext.last)
        /\ ext.status = "returned" =>
                (ext.requests = ext.retryCount + 1 /\ ~Failed(ext.last))
        /\ ext.status = "thrown" => (ext.requests = 4 /\ Failed(ext.last))

\* a call threw after its fourth request failed
C5_Witness ==
    /\ apiKey
    /\ ext.status = "thrown"
    /\ ext.requests = 4
    /\ ext.last.kind = "parsed"

\* C9: the events of a returned result are never empty: the single sentinel
\* when no element of the response is valid, otherwise exactly the valid
\* events, none of them the sentinel.
C9_NeverEmpty ==
    ext.status = "returned" =>
        LET valid == ValidOnes(ext.last.events)
        IN /\ ext.result.events # <<>>
           /\ valid = <<>> => ext.result.events = <<Sentinel>>
           /\ valid # <<>> =>
                /\ ext.result.events = valid
                /\ \A i \in 1..Len(ext.result.events) : ext.result.events[i] # Sentinel

\* a response whose events were all dropped came back as the sentinel
C9_Witness ==
    /\ ext.status = "returned"
    /\ Len(ext.last.events) = 2
    /\ ext.result.events = <<Sentinel>>

\* C10: a response whose events array holds event objects never makes the
\* attempt retry or throw, whichever of them fail validation, and the valid
\* ones are returned in their original order.
C10_DroppedAlone ==
    (/\ ext.requests > 0
     /\ ext.last.kind = "parsed" /\ ext.last.isArray
     /\ \A i \in 1..Len(ext.last.events) : ext.last.events[i].t = "object") =>
        /\ ext.outcome = "return"
        /\ ext.status = "returned"
        /\ ValidOnes(ext.last.events) # <<>> =>
                ext.result.events = ValidOnes(ext.last.events)

\* an invalid event between two different valid ones was dropped alone
C10_Witness ==
    /\ ext.status = "returned"
    /\ Len(ext.last.events) = 3
    /\ ~ValidElement(ext.last.events[2])
    /\ Len(ext.result.events) = 2
    /\ ext.result.events[1] # ext.result.events[2]
    /\ ext.result.events[1].date = ext.last.events[1].date.v
    /\ ext.result.events[2].location = ext.last.events[3].location.v

\* the contact of the response is an object with a string name and a string
\* email that contains "@"
ContactOk(c) ==
    /\ c.t = "object"
    /\ c.name.t = "string"
    /\ c.email.t = "string" /\ "@" \in Range(c.email.v)

\* C11: a contact in a returned result has a string name and a string email
\* containing "@", taken from the response; a contact of the response that
\* fails this is absent from the result, the attempt still returns, and the
\* returned events are what they are without it.
C11_ContactValid ==
    /\ ext.status = "returned" =>
            IF ContactOk(ext.last.contact)
            THEN /\ ext.result.contact.present
                 /\ ext.result.contact.name = ext.last.contact.name.v
                 /\ ext.result.contact.email = ext.last.contact.email.v
            ELSE ~ext.result.contact.present
    /\ (/\ ext.requests > 0
        /\ ext.last.kind = "parsed" /\ ext.last.isArray
        /\ \A i \in 1..Len(ext.last.events) : ext.last.events[i].t = "object"
        /\ ext.last.contact.t = "object" /\ ~ContactOk(ext.last.contact)) =>
            /\ ext.status = "returned"
            /\ ext.result.events =
                    IF ValidOnes(ext.last.events) = <<>> THEN <<Sentinel>>
                    ELSE ValidOnes(ext.last.events)

\* a response with a valid event and a contact whose email has no "@" was
\* returned without the contact
C11_Witness ==
    /\ ext.status = "returned"
    /\ ext.last.contact.t = "object"
    /\ ext.last.contact.email.t = "string"
    /\ ~ext.result.contact.present
    /\ Len(ext.result.events) = 2
    /\ ext.result.events # <<Sentinel>>

----------------------------------------------------------------------------
(* Claims about the ledger file *)

\* C12: a run writes the ledger file at most once and only after every new
\* candidate has been attempted; until then the file is as it was when the
\* run started; what is written holds every loaded record and every record
\* built in the run, and nothing else.
C12_SaveOnceAtEnd ==
    /\ saves <= 1
    /\ (saves = 0 /\ pc # "idle") => ledgerFile = fileAtStart
    /\ saves = 1 =>
            /\ pc = "done" /\ outcome = "saved"
            /\ k > Len(newLinks)
            /\ visited = UrlsOf(newLinks)
            /\ AllIn(existingConcerts \o newConcerts, ledgerFile)
            /\ Len(ledgerFile) = Len(existingConcerts) + Len(newConcerts)

\* a run that loaded records and built records from a new candidate has
\* written the file
C12_Witness ==
    /\ saves = 1
    /\ Len(existingConcerts) > 0
    /\ Len(newConcerts) > 0
    /\ ledgerFile # fileAtStart

----------------------------------------------------------------------------
(* Claims about the order of dates and records *)

\* the first three letters of the Dutch and English month names
CalendarMonths ==
    << {<<"j", "a", "n">>}, {<<"f", "e", "b">>}, {<<"m", "a", "a">>, <<"m", "a", "r">>},
       {<<"a", "p", "r">>}, {<<"m", "e", "i">>, <<"m", "a", "y">>}, {<<"j", "u", "n">>},
       {<<"j", "u", "l">>}, {<<"a", "u", "g">>}, {<<"s", "e", "p">>},
       {<<"o", "k", "t">>, <<"o", "c", "t">>}, {<<"n", "o", "v">>}, {<<"d", "e", "c">>} >>

\* the date string names a calendar day: day, month name, year
HasCalendarValue(date) ==
    LET parts == Split(date, " ")
    IN /\ PatternOk(date)
       /\ Len(parts[2]) >= 3
       /\ \E m \in 1..12 : Prefix3(parts[2]) \in CalendarMonths[m]
       /\ ToNumber(parts[1]) \in 1..31

\* an order-preserving number of the calendar day a date string names
CalendarValue(date) ==
    LET parts == Split(date, " ")
        month == CHOOSE m \in 1..12 : Prefix3(parts[2]) \in CalendarMonths[m]
    IN (ToNumber(parts[3]) * 12 + month) * 31 + ToNumber(parts[1])

\* no date that names a calendar day stands before an earlier one
Ascending(dates) ==
    \A i, j \in 1..Len(dates) :
        (i < j /\ HasCalendarValue(dates[i]) /\ HasCalendarValue(dates[j])) =>
            CalendarValue(dates[i]) <= CalendarValue(dates[j])

\* C13: every ledger a run saves is sorted by first date ascending: no record
\* stands before a record whose first date is an earlier calendar day.
C13_LedgerSorted ==
    (pc = "done" /\ outcome = "saved") =>
        Ascending([i \in 1..Len(ledgerFile) |-> ledgerFile[i].dates[1]])

\* C14: the dates of every record built from a validated extraction result
\* are non-decreasing as calendar days.
C14_DatesAscending ==
    \A i \in 1..Len(newConcerts) : Ascending(newConcerts[i].dates)

----------------------------------------------------------------------------
(* Claims about the Record Builder *)

\* the positions of the events with the given location
EventsAt(events, location) == {n \in 1..Len(events) : events[n].location = location}

\* the position of the first event with the given location
FirstSeen(events, location) ==
    CHOOSE n \in EventsAt(events, location) :
        \A other \in EventsAt(events, location) : n <= other

\* C15: the records built from an extraction result are one per distinct
\* location of its events, in first-seen order of the locations; each has the
\* candidate's title and url and the result's contact, and its dates are
\* exactly the dates of the events with its location, as often as they occur.
C15_OneRecordPerLocation ==
    built.called =>
        LET events == built.info.events
            cs == built.concerts
        IN /\ {cs[i].location : i \in 1..Len(cs)} =
                    {events[n].location : n \in 1..Len(events)}
           /\ \A i, j \in 1..Len(cs) :
                    i < j => FirstSeen(events, cs[i].location)
                                < FirstSeen(events, cs[j].location)
           /\ \A i \in 1..Len(cs) :
                    /\ cs[i].title = built.link.title
                    /\ cs[i].url = built.link.url
                    /\ cs[i].contact = built.info.contact
                    /\ Len(cs[i].dates) = Cardinality(EventsAt(events, cs[i].location))
                    /\ \A n \in EventsAt(events, cs[i].location) :
                            Count(events[n].date, cs[i].dates) =
                                Cardinality({o \in EventsAt(events, cs[i].location) :
                                                events[o].date = events[n].date})

\* events at two locations, two different dates at the first, gave two records
C15_Witness ==
    /\ built.called
    /\ Len(built.info.events) = 3
    /\ Len(built.concerts) = 2
    /\ Len(built.concerts[1].dates) = 2
    /\ built.concerts[1].dates[1] # built.concerts[1].dates[2]
    /\ built.concerts[1].location = built.info.events[1].location
    /\ built.concerts[2].location = built.info.events[3].location

\* C16: no record built from a validated model response holds the same date
\* string twice.
C16_NoDuplicateDates ==
    built.called =>
        \A i \in 1..Len(built.concerts) : NoDuplicates(built.concerts[i].dates)

----------------------------------------------------------------------------
(* Claims about the end of a run *)

\* C20: a run whose write of the ledger file failed ends in failure: its
\* process does not exit with code 0 and the webhook does not start the
\* spreadsheet step after it.
C20_SaveFailureSurfaced ==
    (webhook.closed /\ webhook.outcome \in {"failed", "saveErrorLogged"}) =>
        (webhook.code # 0 /\ ~webhook.sheetsAppend)

----------------------------------------------------------------------------
(* Claims about the error log *)

\* C21: the error side-channel never alters the control flow of the run: the
\* catch of a failed candidate appends one entry to the error log or fails to,
\* and either way the loop goes on with the next candidate (and so reaches the
\* save), with the records built so far kept.
C21_ErrorLogNeverAltersFlow ==
    [][pc = "catch" =>
          /\ pc' = "loop"
          /\ k' = k + 1
          /\ errorsMd' \in {errorsMd, errorsMd + 1}
          /\ newConcerts' = newConcerts]_vars

----------------------------------------------------------------------------
(* Claims about a run without new candidates *)

\* C22: a run whose discovery returned and left zero new candidates is a
\* no-op: no detail page is navigated to, no extraction is called, no entry
\* is written to the error log, the ledger file is not written and is as it
\* was when the run started, and the run ends on its normal path.
C22_NoNewCandidatesNoOp ==
    (pc = "done" /\ newLinks = <<>> /\ outcome # "discoveryThrew") =>
        /\ visited = <<>>
        /\ calls = 0
        /\ ext.requests = 0
        /\ errorsMd = 0
        /\ saves = 0
        /\ ledgerFile = fileAtStart
        /\ outcome = "nothingNew"

\* a run on a ledger that holds records ended after discovery listed only
\* urls of that ledger
C22_Witness ==
    /\ pc = "done"
    /\ outcome = "nothingNew"
    /\ Len(links) > 0
    /\ Len(existingConcerts) > 0
    /\ newLinks = <<>>

----------------------------------------------------------------------------
(* Claims about discovery *)

\* C23: discovery tolerates expansion failures: after a network-settle
\* timeout the loop goes on while clicks remain; a failed expansion step ends
\* the expansion but discovery goes on to the card scan, and what it
\* returns are the links of the cards on the page at that point; at most
\* maxLoadMoreClicks clicks are performed, and none once the loop has
\* stopped (the control not found, a step failed, the maximum reached).
C23_DiscoveryToleratesExpansionFailures ==
    /\ [](disc.clicks <= maxLoadMoreClicks)
    /\ [](disc.status = "returned" => disc.links = ExtractConcertLinks(disc.cards))
    /\ [](disc.stopped \in {"notFound", "threw"} => disc.status # "expanding")
    /\ [][/\ (disc.status = "settling" /\ disc'.settle = "timeout"
                /\ disc.i + 1 < maxLoadMoreClicks) => disc'.status = "expanding"
          /\ disc.status = "expanding" => disc'.status \in {"settling", "scanning"}
          /\ disc'.clicks > disc.clicks =>
                /\ disc.status = "expanding" /\ disc.stopped = "no" /\ disc.open
                /\ disc.i < maxLoadMoreClicks
         ]_vars

\* discovery returned links after a settle timeout was followed by another
\* click and a later expansion step failed
C23_Witness ==
    /\ disc.status = "returned"
    /\ disc.settle = "timeout"
    /\ disc.clicks >= 2
    /\ disc.stopped = "threw"
    /\ Len(disc.links) > 0

----------------------------------------------------------------------------
(* Claims about the pacing of a run *)

\* C24: candidates are processed one at a time and separated by the
\* configured delay: whenever the processing of a candidate has started, a
\* delay was awaited after each of the candidates before it, whether that
\* candidate succeeded or failed.
C24_DelayBetweenCandidates ==
    /\ pc \in {"extract", "catch"} => k = Len(visited)
    /\ Len(visited) >= 1 => waits >= Len(visited) - 1

----------------------------------------------------------------------------
(* Claims about overlapping runs *)

\* C25: overlapping runs are unguarded and race on the ledger file: when two
\* runs loaded the same ledger and both saved, the file is what the last
\* saver wrote from its own load and its own records, so a record the other
\* run built and saved is in the file only if the last saver loaded or built
\* an equal one.
C25_LastSaverOverwrites ==
    (/\ pc = "done" /\ saves = 1
     /\ parked.pc = "done" /\ parked.saves = 1
     /\ fileAtStart = parked.fileAtStart) =>
        \A i \in 1..Len(parked.newConcerts) :
            Count(parked.newConcerts[i], ledgerFile)
                = Count(parked.newConcerts[i], existingConcerts \o newConcerts)

\* both runs loaded the ledger without failure before either saved, both
\* saved, and the file lacks a record that the first saver built and saved
C25_Witness ==
    /\ pc = "done" /\ saves = 1 /\ outcome = "saved"
    /\ parked.pc = "done" /\ parked.saves = 1 /\ parked.outcome = "saved"
    /\ existingConcerts = fileAtStart
    /\ parked.existingConcerts = parked.fileAtStart
    /\ fileAtStart = parked.fileAtStart
    /\ \E i \in 1..Len(parked.newConcerts) :
            Count(parked.newConcerts[i], ledgerFile) = 0

----------------------------------------------------------------------------
(* Claims about the page text *)

\* C26: the text handed to the model is bounded for every page under either
\* policy: the targeted policy keeps at most 50 unique fragments, and under
\* both policies the text put into the request has at most 8000 characters
\* plus the ellipsis marker.
C26_TextBounded ==
    norm.called =>
        /\ norm.inPrompt <= maxLength + 3
        /\ norm.policy = "targeted" => norm.pieces <= maxUniquePieces

----------------------------------------------------------------------------
(* Claims about what the remote tab holds after a call *)

\* C27: after syncConcerts has returned without error, every input record
\* is represented in the tab: some row's first six cells are the record's
\* title, joined dates, location, contact name, contact email and url.
C27_EveryRecordRepresented ==
    (sync.called /\ sync.ok) =>
        \A i \in 1..Len(sync.concerts) :
            \E p \in 1..Len(sheet) : FirstSix(sheet[p]) = NewData(sync.concerts[i])

----------------------------------------------------------------------------
(* Claims about candidates across runs *)

\* C28: a candidate whose processing failed in a run contributes no record
\* to the ledger that run saves, so its url stays unknown; in the next run,
\* if discovery lists the url again, it is classified as new and attempted.
C28_FailedCandidateRetried ==
    /\ (pc = "done" /\ saves = 1) =>
            \A u \in failed.now : u \notin ExistingUrlSet(ledgerFile)
    /\ (pc = "done" /\ outcome # "discoveryThrew") =>
            \A u \in failed.prev :
                (\E i \in 1..Len(links) : links[i].url = u) =>
                    /\ \E j \in 1..Len(newLinks) : newLinks[j].url = u
                    /\ \E j \in 1..Len(visited) : visited[j] = u

\* a ledger record built from the sentinel event
IsSentinelRecord(c) == c.dates = <<DateNotFound>> /\ c.location = LocationNotFound

\* C29: a candidate whose extraction yields only the sentinel event becomes
\* one record with dates ["Date not found"] and location "Location not
\* found"; the run's save puts it into the ledger file; and a url that has
\* such a record in the ledger file at the start of a run counts as known
\* and is not processed in that run.
C29_SentinelPersistedAndKnown ==
    /\ (built.called /\ built.info.events = <<Sentinel>>) =>
            /\ Len(built.concerts) = 1
            /\ IsSentinelRecord(built.concerts[1])
            /\ built.concerts[1].url = built.link.url
    /\ (pc = "done" /\ saves = 1) =>
            \A i \in 1..Len(newConcerts) :
                IsSentinelRecord(newConcerts[i]) => Count(newConcerts[i], ledgerFile) > 0
    /\ pc # "idle" =>
            \A i \in 1..Len(fileAtStart) :
                IsSentinelRecord(fileAtStart[i]) =>
                    \A j \in 1..Len(visited) : visited[j] # fileAtStart[i].url

----------------------------------------------------------------------------
(* Claims about appendConcerts *)

\* the urls of the URL column of the tab as the last call read it
UrlColumn == {app.values[p][6] : p \in 1..Len(app.values)}

====
